---- MODULE Spec2Model ----
(***************************************************************************)
(* Project / membership / task backend: the Project, GroupItem and Tasking *)
(* concepts and the routes that synchronise them.  Every awaited document  *)
(* store call of a route handler is one step of the request that runs it,  *)
(* so that requests can be run one after another (SpecSeq and its          *)
(* restrictions) or interleaved at their await points (SpecNames, SpecRef).*)
(* In SpecAbort a store call of deleteProject's cascade may fail.           *)
(***************************************************************************)
EXTENDS Integers, FiniteSets, Sequences, Bags, TLC

\* ---------------------------------------------------------------- bounds
MaxProjects == 2        \* project documents ever inserted
MaxTasks == 2           \* task documents ever inserted
MaxMemberLinks == 3     \* documents held by the projectmembers collection
MaxAssigneeLinks == 2   \* documents held by the task-assignee collection
MaxRequests == 4        \* requests served in one run

Users == {"alice", "bob"}
Names == {"roadmap", "launch"}
Descriptions == {"design doc", "review"}
Reqs == {"r1", "r2"}
ProjectIds == 1..MaxProjects
TaskIds == 1..MaxTasks
None == "none"

VARIABLES
  projects,       \* Project.projects: set of [id, creator, name]
  projectMembers, \* ProjectMember.groupitems: bag of [group, item]
  tasks,          \* Task.tasks: set of [id, description, project, completion]
  taskAssignees,  \* TaskAssignee.groupitems: bag of [group, item]
  projectsMade,   \* number of ObjectIds handed out by projects.createOne
  tasksMade,      \* number of ObjectIds handed out by tasks.createOne
  req,            \* the requests in progress: handler, arguments, locals, position
  served,         \* number of requests begun
  pre,            \* the collections as they were when the running request began
  aborted         \* the last deleteProject cut short by a failing store call, while
                  \* its project remains: project, caller, the project's tasks then

vars == <<projects, projectMembers, tasks, taskAssignees, projectsMade, tasksMade,
          req, served, pre, aborted>>
store == <<projects, projectMembers, tasks, taskAssignees, projectsMade, tasksMade>>

\* --------------------------------------------------- GroupItemConcept
Pair(group, item) == [group |-> group, item |-> item]

Size(items) == BagCardinality(items)

\* groupitems.createOne({ group, item }): one more document, duplicates kept
addGroupItem(items, group, item) == items (+) SetToBag({Pair(group, item)})

\* groupitems.deleteOne({ group, item }): at most one matching document goes
removeGroupItem(items, group, item) == items (-) SetToBag({Pair(group, item)})

\* deleteAllItemsInGroup with an empty filter: every document goes
deleteAllItemsInGroup_everything(items, group) == EmptyBag

\* groupitems.deleteMany({ group })
deleteAllItemsInGroup(items, group) ==
  [d \in {x \in DOMAIN items : x.group # group} |-> items[d]]

\* groupitems.deleteMany({ item })
deleteItemFromAllGroups(items, item) ==
  [d \in {x \in DOMAIN items : x.item # item} |-> items[d]]

\* groupitems.readOne({ group, item }) and the NotFoundError when it is null
assertItemInGroup(items, group, item) ==
  IF BagIn(Pair(group, item), items) THEN "ok" ELSE "NotFound"

\* ----------------------------------------------------- ProjectConcept
ProjectDoc(id, creator, name) == [id |-> id, creator |-> creator, name |-> name]

\* projects.readOne({ _id }) /= null
ProjectExists(ps, id) == \E p \in ps : p.id = id

getProject(ps, id) == CHOOSE p \in ps : p.id = id

\* assertUserIsCreator without the comparison of the creator with the caller
assertUserIsCreator_anyUser(ps, id, user) ==
  IF ~ProjectExists(ps, id) THEN "NotFound" ELSE "ok"

\* readOne({ _id }); NotFoundError when null, UserCreatorNotMatchError
\* (a NotAllowedError) when the creator differs
assertUserIsCreator(ps, id, user) ==
  IF ~ProjectExists(ps, id) THEN "NotFound"
  ELSE IF getProject(ps, id).creator # user THEN "NotAllowed"
  ELSE "ok"

\* assertProjectNameUnique that never throws
assertProjectNameUnique_never(ps, name) == "ok"

\* readOne({ name }) and the NotAllowedError when a document has the name
assertProjectNameUnique(ps, name) ==
  IF \E p \in ps : p.name = name THEN "NotAllowed" ELSE "ok"

\* projects.createOne({ creator, name })
Project_createOne(ps, id, creator, name) == ps \cup {ProjectDoc(id, creator, name)}

\* projects.partialUpdateOne({ _id }, { name }): no document, no change
Project_updateProjectName(ps, id, name) ==
  {IF p.id = id THEN [p EXCEPT !.name = name] ELSE p : p \in ps}

\* projects.partialUpdateOne({ _id }, { creator })
updateProjectCreator(ps, id, creator) ==
  {IF p.id = id THEN [p EXCEPT !.creator = creator] ELSE p : p \in ps}

\* projects.deleteOne({ _id })
Project_deleteProject(ps, id) == {p \in ps : p.id # id}

\* ----------------------------------------------------- TaskingConcept
TaskDoc(id, description, project) ==
  [id |-> id, description |-> description, project |-> project, completion |-> FALSE]

TaskExists(ts, id) == \E t \in ts : t.id = id

getTask(ts, id) == CHOOSE t \in ts : t.id = id

\* tasks.createOne({ description, project, completion, assignee })
Task_createOne(ts, id, description, project) == ts \cup {TaskDoc(id, description, project)}

\* tasks.deleteOne({ _id })
Task_delete(ts, id) == {t \in ts : t.id # id}

\* deleteTasksForProject with deleteOne in place of deleteMany
deleteTasksForProject_one(ts, project) ==
  IF \E t \in ts : t.project = project
  THEN ts \ {CHOOSE t \in ts : t.project = project /\ \A x \in ts : x.project = project => t.id <= x.id}
  ELSE ts

\* tasks.deleteMany({ project })
deleteTasksForProject(ts, project) == {t \in ts : t.project # project}

\* tasks.partialUpdateOne({ _id }, { description })
updateDescription(ts, id, description) ==
  {IF t.id = id THEN [t EXCEPT !.description = description] ELSE t : t \in ts}

\* the ids of tasks.readMany({ project })
TaskIdsOf(ts, project) == {t.id : t \in {x \in ts : x.project = project}}

RECURSIVE SortedSeq(_)
SortedSeq(S) ==
  IF S = {} THEN <<>>
  ELSE LET m == CHOOSE x \in S : \A y \in S : x <= y
       IN <<m>> \o SortedSeq(S \ {m})

\* tasks.readMany({ project }), in insertion order, as the list of their ids
getAllTasksForProject(ts, project) == SortedSeq(TaskIdsOf(ts, project))

\* ------------------------------------------------------------ requests
Idle ==
  [op |-> "idle", pc |-> "idle", user |-> None, project |-> 0, task |-> 0,
   name |-> None, member |-> None, description |-> None,
   projectTasks |-> <<>>, i |-> 0, err |-> None, alone |-> FALSE]

Snapshot ==
  [projects |-> projects, projectMembers |-> projectMembers,
   tasks |-> tasks, taskAssignees |-> taskAssignees]

NoSnapshot ==
  [projects |-> {}, projectMembers |-> EmptyBag, tasks |-> {}, taskAssignees |-> EmptyBag]

NoAbort == [project |-> 0, user |-> None, tasks |-> {}]

Quiet == \A q \in Reqs : req[q].op = "idle"
Running(r) == req[r].op # "idle" /\ req[r].pc \notin {"done", "failed"}
InFlight(ops) == Cardinality({q \in Reqs : req[q].op \in ops /\ Running(q)})

\* room left for the documents the handlers in flight may still insert
RoomForProject == projectsMade + InFlight({"createProject"}) < MaxProjects
RoomForTask == tasksMade + InFlight({"createTask"}) < MaxTasks
RoomForMember ==
  Size(projectMembers) + InFlight({"createProject", "addMemberToProject"}) < MaxMemberLinks
RoomForAssignee ==
  Size(taskAssignees) + InFlight({"createTask", "addTaskAssignee"}) < MaxAssigneeLinks

\* The router calls the handler: Sessioning.getUser(session) gives the caller.
\* serial: the request runs alone, it is taken when no other is in progress and
\* no other is taken before its response; otherwise it is taken at any time.
Start(r, serial, rq) ==
  /\ served < MaxRequests
  /\ req[r].op = "idle"
  /\ IF serial THEN Quiet /\ r = "r1" ELSE \A q \in Reqs : ~req[q].alone
  /\ req' = [req EXCEPT ![r] = [rq EXCEPT !.alone = serial]]
  /\ served' = served + 1
  /\ pre' = IF serial THEN Snapshot ELSE pre
  /\ UNCHANGED <<store, aborted>>

At(r, op, pc) == req[r].op = op /\ req[r].pc = pc
Goto(r, pc) == req' = [req EXCEPT ![r].pc = pc]
Throw(r, e) == req' = [req EXCEPT ![r].pc = "failed", ![r].err = e]
Check(r, e, pc) == IF e = "ok" THEN Goto(r, pc) ELSE Throw(r, e)

\* the handler's promise settles and the router sends the response
Respond(r) ==
  /\ req[r].pc \in {"done", "failed"}
  /\ req' = [req EXCEPT ![r] = Idle]
  /\ pre' = NoSnapshot
  /\ aborted' = IF At(r, "deleteProject", "done") /\ req[r].project = aborted.project
                THEN NoAbort ELSE aborted
  /\ UNCHANGED <<store, served>>

\* A store call of deleteProject's cascade rejects: the call changes nothing and
\* the handler fails outright, what it did before stays done.
Abort(r) ==
  /\ req[r].op = "deleteProject"
  /\ req[r].pc \in {"dp_members", "dp_readTasks", "dp_assignees", "dp_tasks", "dp_project"}
  /\ Throw(r, "StoreError")
  /\ aborted' = [project |-> req[r].project, user |-> req[r].user,
                 tasks |-> TaskIdsOf(pre.tasks, req[r].project)
                           \cup (IF aborted.project = req[r].project
                                 THEN aborted.tasks ELSE {})]
  /\ UNCHANGED <<store, served, pre>>

\* ----------------------------------------------------------- Routes
createProject(r, serial) ==
  \/ /\ RoomForProject /\ RoomForMember
     /\ \E u \in Users, n \in Names :
          Start(r, serial, [Idle EXCEPT !.op = "createProject", !.pc = "cp_unique",
                                        !.user = u, !.name = n])
  \/ /\ At(r, "createProject", "cp_unique")
     /\ Check(r, assertProjectNameUnique(projects, req[r].name), "cp_insert")
     /\ UNCHANGED <<store, served, pre, aborted>>
  \/ /\ At(r, "createProject", "cp_insert")
     /\ projects' = Project_createOne(projects, projectsMade + 1, req[r].user, req[r].name)
     /\ projectsMade' = projectsMade + 1
     /\ req' = [req EXCEPT ![r].project = projectsMade + 1, ![r].pc = "cp_read"]
     /\ UNCHANGED <<projectMembers, tasks, taskAssignees, tasksMade, served, pre, aborted>>
  \/ /\ At(r, "createProject", "cp_read")
     /\ Goto(r, IF ProjectExists(projects, req[r].project) THEN "cp_member" ELSE "done")
     /\ UNCHANGED <<store, served, pre, aborted>>
  \/ /\ At(r, "createProject", "cp_member")
     /\ projectMembers' = addGroupItem(projectMembers, req[r].project, req[r].user)
     /\ Goto(r, "done")
     /\ UNCHANGED <<projects, tasks, taskAssignees, projectsMade, tasksMade, served, pre, aborted>>

\* deleteProject with the project record deleted before its dependants
deleteProject_recordFirst(r, serial) ==
  \/ \E u \in Users, p \in ProjectIds :
       Start(r, serial, [Idle EXCEPT !.op = "deleteProject", !.pc = "dp_assert",
                                     !.user = u, !.project = p])
  \/ /\ At(r, "deleteProject", "dp_assert")
     /\ Check(r, assertUserIsCreator(projects, req[r].project, req[r].user), "dp_project")
     /\ UNCHANGED <<store, served, pre, aborted>>
  \/ /\ At(r, "deleteProject", "dp_members")
     /\ projectMembers' = deleteAllItemsInGroup(projectMembers, req[r].project)
     /\ Goto(r, "dp_readTasks")
     /\ UNCHANGED <<projects, tasks, taskAssignees, projectsMade, tasksMade, served, pre, aborted>>
  \/ /\ At(r, "deleteProject", "dp_readTasks")
     /\ LET found == getAllTasksForProject(tasks, req[r].project)
        IN req' = [req EXCEPT ![r].projectTasks = found, ![r].i = 1,
                              ![r].pc = IF Len(found) = 0 THEN "dp_tasks" ELSE "dp_assignees"]
     /\ UNCHANGED <<store, served, pre, aborted>>
  \/ /\ At(r, "deleteProject", "dp_assignees")
     /\ taskAssignees' = deleteAllItemsInGroup(taskAssignees, req[r].projectTasks[req[r].i])
     /\ req' = [req EXCEPT ![r].i = @ + 1,
                           ![r].pc = IF req[r].i + 1 > Len(req[r].projectTasks)
                                     THEN "dp_tasks" ELSE "dp_assignees"]
     /\ UNCHANGED <<projects, projectMembers, tasks, projectsMade, tasksMade, served, pre, aborted>>
  \/ /\ At(r, "deleteProject", "dp_tasks")
     /\ tasks' = deleteTasksForProject(tasks, req[r].project)
     /\ Goto(r, "done")
     /\ UNCHANGED <<projects, projectMembers, taskAssignees, projectsMade, tasksMade, served, pre, aborted>>
  \/ /\ At(r, "deleteProject", "dp_project")
     /\ projects' = Project_deleteProject(projects, req[r].project)
     /\ Goto(r, "dp_members")
     /\ UNCHANGED <<projectMembers, tasks, taskAssignees, projectsMade, tasksMade, served, pre, aborted>>

deleteProject(r, serial) ==
  \/ \E u \in Users, p \in ProjectIds :
       Start(r, serial, [Idle EXCEPT !.op = "deleteProject", !.pc = "dp_assert",
                                     !.user = u, !.project = p])
  \/ /\ At(r, "deleteProject", "dp_assert")
     /\ Check(r, assertUserIsCreator(projects, req[r].project, req[r].user), "dp_members")
     /\ UNCHANGED <<store, served, pre, aborted>>
  \/ /\ At(r, "deleteProject", "dp_members")
     /\ projectMembers' = deleteAllItemsInGroup(projectMembers, req[r].project)
     /\ Goto(r, "dp_readTasks")
     /\ UNCHANGED <<projects, tasks, taskAssignees, projectsMade, tasksMade, served, pre, aborted>>
  \/ /\ At(r, "deleteProject", "dp_readTasks")
     /\ LET found == getAllTasksForProject(tasks, req[r].project)
        IN req' = [req EXCEPT ![r].projectTasks = found, ![r].i = 1,
                              ![r].pc = IF Len(found) = 0 THEN "dp_tasks" ELSE "dp_assignees"]
     /\ UNCHANGED <<store, served, pre, aborted>>
  \/ /\ At(r, "deleteProject", "dp_assignees")
     /\ taskAssignees' = deleteAllItemsInGroup(taskAssignees, req[r].projectTasks[req[r].i])
     /\ req' = [req EXCEPT ![r].i = @ + 1,
                           ![r].pc = IF req[r].i + 1 > Len(req[r].projectTasks)
                                     THEN "dp_tasks" ELSE "dp_assignees"]
     /\ UNCHANGED <<projects, projectMembers, tasks, projectsMade, tasksMade, served, pre, aborted>>
  \/ /\ At(r, "deleteProject", "dp_tasks")
     /\ tasks' = deleteTasksForProject(tasks, req[r].project)
     /\ Goto(r, "dp_project")
     /\ UNCHANGED <<projects, projectMembers, taskAssignees, projectsMade, tasksMade, served, pre, aborted>>
  \/ /\ At(r, "deleteProject", "dp_project")
     /\ projects' = Project_deleteProject(projects, req[r].project)
     /\ Goto(r, "done")
     /\ UNCHANGED <<projectMembers, tasks, taskAssignees, projectsMade, tasksMade, served, pre, aborted>>

updateProjectName(r, serial) ==
  \/ \E u \in Users, p \in ProjectIds, n \in Names :
       Start(r, serial, [Idle EXCEPT !.op = "updateProjectName", !.pc = "un_assert",
                                     !.user = u, !.project = p, !.name = n])
  \/ /\ At(r, "updateProjectName", "un_assert")
     /\ Check(r, assertUserIsCreator(projects, req[r].project, req[r].user), "un_unique")
     /\ UNCHANGED <<store, served, pre, aborted>>
  \/ /\ At(r, "updateProjectName", "un_unique")
     /\ Check(r, assertProjectNameUnique(projects, req[r].name), "un_update")
     /\ UNCHANGED <<store, served, pre, aborted>>
  \/ /\ At(r, "updateProjectName", "un_update")
     /\ projects' = Project_updateProjectName(projects, req[r].project, req[r].name)
     /\ Goto(r, "done")
     /\ UNCHANGED <<projectMembers, tasks, taskAssignees, projectsMade, tasksMade, served, pre, aborted>>

updateProjectManager(r, serial) ==
  \/ \E u \in Users, p \in ProjectIds, m \in Users :
       Start(r, serial, [Idle EXCEPT !.op = "updateProjectManager", !.pc = "um_assert",
                                     !.user = u, !.project = p, !.member = m])
  \/ /\ At(r, "updateProjectManager", "um_assert")
     /\ Check(r, assertUserIsCreator(projects, req[r].project, req[r].user), "um_member")
     /\ UNCHANGED <<store, served, pre, aborted>>
  \/ /\ At(r, "updateProjectManager", "um_member")
     /\ Check(r, assertItemInGroup(projectMembers, req[r].project, req[r].member), "um_update")
     /\ UNCHANGED <<store, served, pre, aborted>>
  \/ /\ At(r, "updateProjectManager", "um_update")
     /\ projects' = updateProjectCreator(projects, req[r].project, req[r].member)
     /\ Goto(r, "done")
     /\ UNCHANGED <<projectMembers, tasks, taskAssignees, projectsMade, tasksMade, served, pre, aborted>>

addMemberToProject(r, serial) ==
  \/ /\ RoomForMember
     /\ \E u \in Users, p \in ProjectIds, m \in Users :
          Start(r, serial, [Idle EXCEPT !.op = "addMemberToProject", !.pc = "am_assert",
                                        !.user = u, !.project = p, !.member = m])
  \/ /\ At(r, "addMemberToProject", "am_assert")
     /\ Check(r, assertUserIsCreator(projects, req[r].project, req[r].user), "am_add")
     /\ UNCHANGED <<store, served, pre, aborted>>
  \/ /\ At(r, "addMemberToProject", "am_add")
     /\ projectMembers' = addGroupItem(projectMembers, req[r].project, req[r].member)
     /\ Goto(r, "done")
     /\ UNCHANGED <<projects, tasks, taskAssignees, projectsMade, tasksMade, served, pre, aborted>>

deleteMemberFromProject(r, serial) ==
  \/ \E u \in Users, p \in ProjectIds, m \in Users :
       Start(r, serial, [Idle EXCEPT !.op = "deleteMemberFromProject", !.pc = "dm_assert",
                                     !.user = u, !.project = p, !.member = m])
  \/ /\ At(r, "deleteMemberFromProject", "dm_assert")
     /\ Check(r, assertUserIsCreator(projects, req[r].project, req[r].user), "dm_assignees")
     /\ UNCHANGED <<store, served, pre, aborted>>
  \/ /\ At(r, "deleteMemberFromProject", "dm_assignees")
     /\ taskAssignees' = deleteItemFromAllGroups(taskAssignees, req[r].member)
     /\ Goto(r, "dm_remove")
     /\ UNCHANGED <<projects, projectMembers, tasks, projectsMade, tasksMade, served, pre, aborted>>
  \/ /\ At(r, "deleteMemberFromProject", "dm_remove")
     /\ projectMembers' = removeGroupItem(projectMembers, req[r].project, req[r].member)
     /\ Goto(r, "done")
     /\ UNCHANGED <<projects, tasks, taskAssignees, projectsMade, tasksMade, served, pre, aborted>>

\* task.task of the handler: null when Task.create's readOne found no document
CreatedTask(r) == req[r].task # 0

createTask(r, serial) ==
  \/ /\ RoomForTask
     /\ \E u \in Users, p \in ProjectIds, d \in Descriptions, a \in Users \cup {None} :
          /\ a # None => RoomForAssignee
          /\ Start(r, serial, [Idle EXCEPT !.op = "createTask", !.pc = "ct_assert",
                                           !.user = u, !.project = p,
                                           !.description = d, !.member = a])
  \/ /\ At(r, "createTask", "ct_assert")
     /\ Check(r, assertUserIsCreator(projects, req[r].project, req[r].user), "ct_insert")
     /\ UNCHANGED <<store, served, pre, aborted>>
  \/ /\ At(r, "createTask", "ct_insert")
     /\ tasks' = Task_createOne(tasks, tasksMade + 1, req[r].description, req[r].project)
     /\ tasksMade' = tasksMade + 1
     /\ req' = [req EXCEPT ![r].i = tasksMade + 1, ![r].pc = "ct_read"]
     /\ UNCHANGED <<projects, projectMembers, taskAssignees, projectsMade, served, pre, aborted>>
  \/ /\ At(r, "createTask", "ct_read")
     /\ req' = [req EXCEPT ![r].task = IF TaskExists(tasks, req[r].i) THEN req[r].i ELSE 0,
                           ![r].i = 0,
                           ![r].pc = IF req[r].member = None THEN "done" ELSE "ct_member"]
     /\ UNCHANGED <<store, served, pre, aborted>>
  \/ /\ At(r, "createTask", "ct_member")
     /\ LET e == assertItemInGroup(projectMembers, req[r].project, req[r].member)
        IN IF e # "ok" THEN Throw(r, e)
           ELSE IF ~CreatedTask(r) THEN Throw(r, "NotAllowed")
           ELSE Goto(r, "ct_link")
     /\ UNCHANGED <<store, served, pre, aborted>>
  \/ /\ At(r, "createTask", "ct_link")
     /\ taskAssignees' = addGroupItem(taskAssignees, req[r].task, req[r].member)
     /\ Goto(r, "done")
     /\ UNCHANGED <<projects, projectMembers, tasks, projectsMade, tasksMade, served, pre, aborted>>

\* (await Task.getTask(taskId))?.project and the NotAllowedError when it is absent
LookupTask(r, pc) ==
  IF TaskExists(tasks, req[r].task)
  THEN req' = [req EXCEPT ![r].project = getTask(tasks, req[r].task).project, ![r].pc = pc]
  ELSE Throw(r, "NotAllowed")

deleteTask(r, serial) ==
  \/ \E u \in Users, t \in TaskIds :
       Start(r, serial, [Idle EXCEPT !.op = "deleteTask", !.pc = "dt_get",
                                     !.user = u, !.task = t])
  \/ /\ At(r, "deleteTask", "dt_get")
     /\ LookupTask(r, "dt_assert")
     /\ UNCHANGED <<store, served, pre, aborted>>
  \/ /\ At(r, "deleteTask", "dt_assert")
     /\ Check(r, assertUserIsCreator(projects, req[r].project, req[r].user), "dt_assignees")
     /\ UNCHANGED <<store, served, pre, aborted>>
  \/ /\ At(r, "deleteTask", "dt_assignees")
     /\ taskAssignees' = deleteAllItemsInGroup(taskAssignees, req[r].task)
     /\ Goto(r, "dt_delete")
     /\ UNCHANGED <<projects, projectMembers, tasks, projectsMade, tasksMade, served, pre, aborted>>
  \/ /\ At(r, "deleteTask", "dt_delete")
     /\ tasks' = Task_delete(tasks, req[r].task)
     /\ Goto(r, "done")
     /\ UNCHANGED <<projects, projectMembers, taskAssignees, projectsMade, tasksMade, served, pre, aborted>>

updateTaskDescription(r, serial) ==
  \/ \E u \in Users, t \in TaskIds, d \in Descriptions :
       Start(r, serial, [Idle EXCEPT !.op = "updateTaskDescription", !.pc = "ud_get",
                                     !.user = u, !.task = t, !.description = d])
  \/ /\ At(r, "updateTaskDescription", "ud_get")
     /\ LookupTask(r, "ud_assert")
     /\ UNCHANGED <<store, served, pre, aborted>>
  \/ /\ At(r, "updateTaskDescription", "ud_assert")
     /\ Check(r, assertUserIsCreator(projects, req[r].project, req[r].user), "ud_update")
     /\ UNCHANGED <<store, served, pre, aborted>>
  \/ /\ At(r, "updateTaskDescription", "ud_update")
     /\ tasks' = updateDescription(tasks, req[r].task, req[r].description)
     /\ Goto(r, "done")
     /\ UNCHANGED <<projects, projectMembers, taskAssignees, projectsMade, tasksMade, served, pre, aborted>>

addTaskAssignee(r, serial) ==
  \/ /\ RoomForAssignee
     /\ \E u \in Users, t \in TaskIds, a \in Users :
          Start(r, serial, [Idle EXCEPT !.op = "addTaskAssignee", !.pc = "ta_get",
                                        !.user = u, !.task = t, !.member = a])
  \/ /\ At(r, "addTaskAssignee", "ta_get")
     /\ LookupTask(r, "ta_assert")
     /\ UNCHANGED <<store, served, pre, aborted>>
  \/ /\ At(r, "addTaskAssignee", "ta_assert")
     /\ Check(r, assertUserIsCreator(projects, req[r].project, req[r].user), "ta_add")
     /\ UNCHANGED <<store, served, pre, aborted>>
  \/ /\ At(r, "addTaskAssignee", "ta_add")
     /\ taskAssignees' = addGroupItem(taskAssignees, req[r].task, req[r].member)
     /\ Goto(r, "done")
     /\ UNCHANGED <<projects, projectMembers, tasks, projectsMade, tasksMade, served, pre, aborted>>

unassignTask(r, serial) ==
  \/ \E u \in Users, t \in TaskIds :
       Start(r, serial, [Idle EXCEPT !.op = "unassignTask", !.pc = "ut_get",
                                     !.user = u, !.task = t])
  \/ /\ At(r, "unassignTask", "ut_get")
     /\ LookupTask(r, "ut_assert")
     /\ UNCHANGED <<store, served, pre, aborted>>
  \/ /\ At(r, "unassignTask", "ut_assert")
     /\ Check(r, assertUserIsCreator(projects, req[r].project, req[r].user), "ut_delete")
     /\ UNCHANGED <<store, served, pre, aborted>>
  \/ /\ At(r, "unassignTask", "ut_delete")
     /\ taskAssignees' = deleteAllItemsInGroup(taskAssignees, req[r].task)
     /\ Goto(r, "done")
     /\ UNCHANGED <<projects, projectMembers, tasks, projectsMade, tasksMade, served, pre, aborted>>

Init ==
  /\ projects = {}
  /\ projectMembers = EmptyBag
  /\ tasks = {}
  /\ taskAssignees = EmptyBag
  /\ projectsMade = 0
  /\ tasksMade = 0
  /\ req = [r \in Reqs |-> Idle]
  /\ served = 0
  /\ pre = NoSnapshot
  /\ aborted = NoAbort

\* ------------------------------------------------------ specifications
\* every route, one request at a time
NextSeq ==
  \E r \in Reqs :
    \/ createProject(r, TRUE) \/ deleteProject(r, TRUE)
    \/ updateProjectName(r, TRUE) \/ updateProjectManager(r, TRUE)
    \/ addMemberToProject(r, TRUE) \/ deleteMemberFromProject(r, TRUE)
    \/ createTask(r, TRUE) \/ deleteTask(r, TRUE)
    \/ updateTaskDescription(r, TRUE) \/ addTaskAssignee(r, TRUE)
    \/ unassignTask(r, TRUE)
    \/ Respond(r)

SpecSeq == Init /\ [][NextSeq]_vars

\* the project and membership routes, one request at a time
NextMembers ==
  \E r \in Reqs :
    \/ createProject(r, TRUE) \/ updateProjectManager(r, TRUE)
    \/ addMemberToProject(r, TRUE) \/ deleteMemberFromProject(r, TRUE)
    \/ Respond(r)

SpecMembers == Init /\ [][NextMembers]_vars

\* createProject and updateProjectName, interleaved at their store calls
NextNames ==
  \E r \in Reqs :
    \/ createProject(r, FALSE) \/ updateProjectName(r, FALSE)
    \/ Respond(r)

SpecNames == Init /\ [][NextNames]_vars

\* createTask, addTaskAssignee, addMemberToProject, deleteTask and deleteProject,
\* interleaved at their store calls; createProject runs on its own
NextRef ==
  \E r \in Reqs :
    \/ createProject(r, TRUE)
    \/ deleteProject(r, FALSE)
    \/ addMemberToProject(r, FALSE)
    \/ createTask(r, FALSE) \/ deleteTask(r, FALSE)
    \/ addTaskAssignee(r, FALSE)
    \/ Respond(r)

SpecRef == Init /\ [][NextRef]_vars

\* the routes that fill and delete a project, one request at a time, where a
\* store call of deleteProject's cascade may fail
NextAbort ==
  \E r \in Reqs :
    \/ createProject(r, TRUE) \/ deleteProject(r, TRUE)
    \/ addMemberToProject(r, TRUE)
    \/ createTask(r, TRUE) \/ addTaskAssignee(r, TRUE)
    \/ Abort(r)
    \/ Respond(r)

SpecAbort == Init /\ [][NextAbort]_vars

\* ------------------------------------------------------------- claims
Finished(r, op) == req[r].op = op /\ req[r].pc = "done"
Ended(r) == req[r].pc \in {"done", "failed"}
LinksOf(items, group) == {d \in DOMAIN items : d.group = group}

\* C1: when deleteProject(P) by P's creator has returned successfully, with no
\* other request interleaved, the project record P is absent, no project-member
\* link has group P, no task has project P, and no task-assignee link has as
\* group a task that belonged to P before the call.
C1_DeleteProjectCleans ==
  \A r \in Reqs :
    Finished(r, "deleteProject") =>
      LET P == req[r].project IN
        /\ ~ProjectExists(projects, P)
        /\ LinksOf(projectMembers, P) = {}
        /\ \A t \in tasks : t.project # P
        /\ \A t \in pre.tasks : t.project = P => LinksOf(taskAssignees, t.id) = {}

\* a deleteProject has returned for a project that had a member, two tasks and
\* an assignee link on one of them
C1_Witness ==
  \E r \in Reqs :
    /\ Finished(r, "deleteProject")
    /\ LinksOf(pre.projectMembers, req[r].project) # {}
    /\ Cardinality({t \in pre.tasks : t.project = req[r].project}) = 2
    /\ \E t \in pre.tasks : t.project = req[r].project /\ LinksOf(pre.taskAssignees, t.id) # {}

ProjectRoutes ==
  {"deleteProject", "updateProjectName", "updateProjectManager",
   "addMemberToProject", "deleteMemberFromProject", "createTask"}
TaskRoutes == {"deleteTask", "updateTaskDescription", "addTaskAssignee", "unassignTask"}

\* the project a request was aimed at when it began: the one it names, or the
\* one of the task it names (0 when the task did not exist)
TargetProject(r) ==
  IF req[r].op \in TaskRoutes
  THEN IF TaskExists(pre.tasks, req[r].task) THEN getTask(pre.tasks, req[r].task).project ELSE 0
  ELSE req[r].project

NotCreatorAtStart(r) ==
  /\ req[r].op \in ProjectRoutes \cup TaskRoutes
  /\ ProjectExists(pre.projects, TargetProject(r))
  /\ getProject(pre.projects, TargetProject(r)).creator # req[r].user

\* C2: a request of one of the ten creator-only routes, made by a logged-in user
\* who is not the creator of the project it targets (directly or through a task),
\* never succeeds, ends with an error, and leaves the four collections unchanged.
C2_OnlyCreator ==
  \A r \in Reqs :
    NotCreatorAtStart(r) =>
      /\ req[r].pc # "done"
      /\ req[r].pc = "failed" => req[r].err # None
      /\ Snapshot = pre

\* a non-creator's addTaskAssignee on a task of an existing project has failed
C2_Witness ==
  \E r \in Reqs :
    /\ NotCreatorAtStart(r)
    /\ req[r].op = "addTaskAssignee"
    /\ req[r].pc = "failed"

NameTakenAtStart(r) ==
  /\ req[r].op \in {"createProject", "updateProjectName"}
  /\ \E p \in pre.projects : p.name = req[r].name

\* C3 as stated: createProject(name) and updateProjectName(id, name) fail with a
\* Conflict/NotAllowed error whenever some project already has the name, and leave
\* the projects and project-member collections unchanged.
C3_AsStated ==
  \A r \in Reqs :
    (NameTakenAtStart(r) /\ Ended(r)) =>
      /\ req[r].pc = "failed"
      /\ req[r].err = "NotAllowed"
      /\ projects = pre.projects
      /\ projectMembers = pre.projectMembers

\* C3 as amended: they fail whenever some project already has the name, with
\* NotAllowed, except that updateProjectName on a project id that does not exist
\* fails with NotFound; projects and project-member links are left unchanged.
C3_NameTakenFails ==
  \A r \in Reqs :
    NameTakenAtStart(r) =>
      /\ req[r].pc # "done"
      /\ req[r].pc = "failed" =>
           req[r].err = IF req[r].op = "updateProjectName"
                           /\ ~ProjectExists(pre.projects, req[r].project)
                        THEN "NotFound" ELSE "NotAllowed"
      /\ projects = pre.projects
      /\ projectMembers = pre.projectMembers

\* the creator's updateProjectName to a name another project holds has failed
C3_Witness ==
  \E r \in Reqs :
    /\ NameTakenAtStart(r)
    /\ req[r].op = "updateProjectName"
    /\ req[r].pc = "failed"
    /\ ProjectExists(pre.projects, req[r].project)
    /\ getProject(pre.projects, req[r].project).creator = req[r].user
    /\ getProject(pre.projects, req[r].project).name # req[r].name

\* C4: no two distinct project records have the same name, whatever the
\* interleaving of the store calls of createProject and updateProjectName requests.
C4_NamesUnique ==
  \A p, q \in projects : p.name = q.name => p.id = q.id

NoneRunning == \A r \in Reqs : ~Running(r)

IsMember(members, project, user) == BagIn(Pair(project, user), members)

AssignsNonMember(r) ==
  /\ \/ req[r].op = "addTaskAssignee"
     \/ req[r].op = "createTask" /\ req[r].member # None
  /\ IF req[r].op = "createTask" THEN ProjectExists(pre.projects, req[r].project)
     ELSE TaskExists(pre.tasks, req[r].task)
  /\ ~IsMember(pre.projectMembers, TargetProject(r), req[r].member)

\* C5: after any sequence of requests every task-assignee link (T, U) has U a
\* member of T's project; a request that assigns a user who is not a member of
\* the task's project fails and creates no assignee link.
C5_AssigneesAreMembers ==
  /\ NoneRunning =>
       \A d \in DOMAIN taskAssignees :
         TaskExists(tasks, d.group) =>
           IsMember(projectMembers, getTask(tasks, d.group).project, d.item)
  /\ \A r \in Reqs :
       (AssignsNonMember(r) /\ Ended(r)) =>
         req[r].pc = "failed" /\ taskAssignees = pre.taskAssignees

\* C6: whenever no request is in progress, every task's project is an existing
\* project, every project-member link's group is an existing project and every
\* task-assignee link's group is an existing task, whatever the interleaving of
\* createTask, addTaskAssignee, addMemberToProject, deleteTask and deleteProject.
C6_ReferentialIntegrity ==
  Quiet =>
    /\ \A t \in tasks : ProjectExists(projects, t.project)
    /\ \A d \in DOMAIN projectMembers : ProjectExists(projects, d.group)
    /\ \A d \in DOMAIN taskAssignees : TaskExists(tasks, d.group)

\* C7: after a successful createProject by U the new project has creator U and a
\* member link (project, U); after any sequence of non-interleaved createProject,
\* updateProjectManager, addMemberToProject and deleteMemberFromProject requests
\* every project's creator is a member of it; updateProjectManager with a new
\* manager who is not a member fails and leaves the creator unchanged.
C7_CreatorIsMember ==
  /\ \A r \in Reqs :
       Finished(r, "createProject") =>
         /\ ProjectExists(projects, req[r].project)
         /\ getProject(projects, req[r].project).creator = req[r].user
         /\ IsMember(projectMembers, req[r].project, req[r].user)
  /\ NoneRunning => \A p \in projects : IsMember(projectMembers, p.id, p.creator)
  /\ \A r \in Reqs :
       ( /\ req[r].op = "updateProjectManager"
         /\ ~IsMember(pre.projectMembers, req[r].project, req[r].member) ) =>
           req[r].pc # "done" /\ projects = pre.projects

CascadeOf(r) == {t \in pre.tasks : t.project = req[r].project}
MembersGone(r) == LinksOf(projectMembers, req[r].project) = {}
AssigneesGone(r) == \A t \in CascadeOf(r) : LinksOf(taskAssignees, t.id) = {}
TasksGone(r) == \A t \in tasks : t.project # req[r].project

\* C8: within one deleteProject(P) request the member links of P are deleted
\* first, then the assignee links of every task of P, then the tasks of P, and
\* the project record last: at each position of the cascade the earlier stages
\* are complete, the later ones untouched, and the record P still exists.
C8_CascadeOrder ==
  \A r \in Reqs :
    req[r].op = "deleteProject" =>
      /\ req[r].pc \in {"dp_assert", "dp_members", "failed"} => Snapshot = pre
      /\ req[r].pc \in {"dp_readTasks", "dp_assignees", "dp_tasks", "dp_project"} =>
           /\ MembersGone(r)
           /\ projects = pre.projects
           /\ ProjectExists(projects, req[r].project)
      /\ req[r].pc \in {"dp_readTasks", "dp_assignees", "dp_tasks"} => tasks = pre.tasks
      /\ req[r].pc = "dp_readTasks" => taskAssignees = pre.taskAssignees
      /\ req[r].pc \in {"dp_tasks", "dp_project"} => AssigneesGone(r)
      /\ req[r].pc = "dp_project" => TasksGone(r)
      /\ req[r].pc = "done" => ~ProjectExists(projects, req[r].project)

\* the cascade stands before its last step, the record still there, having
\* removed a member link, an assignee link and a task
C8_Witness ==
  \E r \in Reqs :
    /\ At(r, "deleteProject", "dp_project")
    /\ ProjectExists(projects, req[r].project)
    /\ LinksOf(pre.projectMembers, req[r].project) # {}
    /\ \E t \in CascadeOf(r) : LinksOf(pre.taskAssignees, t.id) # {}

CreatorAtStart(r) ==
  /\ ProjectExists(pre.projects, TargetProject(r))
  /\ getProject(pre.projects, TargetProject(r)).creator = req[r].user

\* C9: when deleteTask(T) by the creator of T's project has completed, with no
\* other request interleaved, the task T is absent and no assignee link has
\* group T, and every other task and every assignee link of other tasks is
\* unchanged; deleteTask on a task id that does not exist fails, changing nothing.
C9_DeleteTask ==
  \A r \in Reqs :
    req[r].op = "deleteTask" =>
      /\ (req[r].pc = "done" /\ CreatorAtStart(r)) =>
           /\ ~TaskExists(tasks, req[r].task)
           /\ LinksOf(taskAssignees, req[r].task) = {}
           /\ tasks = {t \in pre.tasks : t.id # req[r].task}
           /\ \A d \in DOMAIN pre.taskAssignees :
                d.group # req[r].task =>
                  CopiesIn(d, taskAssignees) = CopiesIn(d, pre.taskAssignees)
           /\ \A d \in DOMAIN taskAssignees : BagIn(d, pre.taskAssignees)
      /\ ~TaskExists(pre.tasks, req[r].task) =>
           /\ req[r].pc # "done"
           /\ Snapshot = pre

\* a deleteTask has completed for a task with an assignee link while another
\* task with an assignee link exists
C9_Witness ==
  \E r \in Reqs :
    /\ Finished(r, "deleteTask")
    /\ CreatorAtStart(r)
    /\ LinksOf(pre.taskAssignees, req[r].task) # {}
    /\ \E t \in tasks : LinksOf(taskAssignees, t.id) # {}

\* a deleteTask on a task id that does not exist has failed
C9_WitnessAbsent ==
  \E r \in Reqs :
    /\ req[r].op = "deleteTask" /\ req[r].pc = "failed"
    /\ ~TaskExists(pre.tasks, req[r].task)
    /\ pre.tasks # {}

\* C10: after deleteMemberFromProject(P, M) by P's creator has returned
\* successfully, M is no longer a member of P (assertItemInGroup(P, M) fails with
\* NotFound), also when (P, M) had been inserted more than once.
C10_MemberRemoved ==
  \A r \in Reqs :
    Finished(r, "deleteMemberFromProject") =>
      assertItemInGroup(projectMembers, req[r].project, req[r].member) = "NotFound"

\* C11: createTask(P, description, A) by P's creator with an assignee A who is
\* not a member of P fails with NotFound and leaves the tasks collection and the
\* task-assignee collection unchanged (no task record is created).
C11_FailedCreateTaskLeavesNothing ==
  \A r \in Reqs :
    ( /\ req[r].op = "createTask"
      /\ req[r].member # None
      /\ CreatorAtStart(r)
      /\ ~IsMember(pre.projectMembers, req[r].project, req[r].member)
      /\ Ended(r) ) =>
        /\ req[r].pc = "failed"
        /\ req[r].err = "NotFound"
        /\ tasks = pre.tasks
        /\ taskAssignees = pre.taskAssignees

\* C12: deleteMemberFromProject(P, M) leaves unchanged every project-member link
\* of other projects and every task-assignee link (T, M) of a task T of a
\* project other than P.
C12_OnlyProjectP ==
  \A r \in Reqs :
    req[r].op = "deleteMemberFromProject" =>
      /\ \A d \in DOMAIN pre.projectMembers \cup DOMAIN projectMembers :
           d.group # req[r].project =>
             CopiesIn(d, projectMembers) = CopiesIn(d, pre.projectMembers)
      /\ \A t \in pre.tasks :
           t.project # req[r].project =>
             CopiesIn(Pair(t.id, req[r].member), taskAssignees)
               = CopiesIn(Pair(t.id, req[r].member), pre.taskAssignees)

Retry(r) ==
  /\ req[r].op = "deleteProject"
  /\ aborted.project # 0
  /\ req[r].project = aborted.project
  /\ req[r].user = aborted.user

\* C13: when a deleteProject(P) has been cut short after any prefix of its store
\* calls, the record P is still there with the same creator, and a later
\* deleteProject(P) by that creator fails only if a store call fails again; run
\* to completion it leaves no project P, no member link of P, no task of P and
\* no assignee link of a task that belonged to P.
C13_RetryCleans ==
  /\ (aborted.project # 0 /\ ~\E r \in Reqs : Retry(r) /\ req[r].pc = "done") =>
       /\ ProjectExists(projects, aborted.project)
       /\ getProject(projects, aborted.project).creator = aborted.user
  /\ \A r \in Reqs :
       Retry(r) =>
         /\ req[r].pc = "failed" => req[r].err = "StoreError"
         /\ req[r].pc = "done" =>
              /\ ~ProjectExists(projects, req[r].project)
              /\ LinksOf(projectMembers, req[r].project) = {}
              /\ \A t \in tasks : t.project # req[r].project
              /\ \A t \in aborted.tasks \cup TaskIdsOf(pre.tasks, req[r].project) :
                   LinksOf(taskAssignees, t) = {}

\* a deleteProject has completed on a project that an earlier, aborted
\* deleteProject had left without member links but with a task
C13_Witness ==
  \E r \in Reqs :
    /\ Retry(r) /\ req[r].pc = "done"
    /\ LinksOf(pre.projectMembers, req[r].project) = {}
    /\ TaskIdsOf(pre.tasks, req[r].project) # {}
    /\ aborted.tasks # {}

====
